---- MODULE Spec2Model ----
(***************************************************************************)
(* A model of the avoc front end: the lexer (parser/tokenreader.rs,        *)
(* TokenReader::parse and its state machine) and the shunting-yard         *)
(* expression builder (parser/rpntreebuilder.rs, RpnTreeBuilder).          *)
(*                                                                         *)
(* A character is a one-character string, a text a sequence of characters. *)
(* A token is a record [kind, payload, value, pos]: payload is the text of *)
(* an Operator / Identifier / Function / StringConstant, value the number  *)
(* of an IntConstant / FloatConstant.  A number is kept as an exact        *)
(* decimal [m, e] meaning m / 10^e (an IntConstant has e = 0); the         *)
(* rounding of f32 is not modelled.                                        *)
(***************************************************************************)
EXTENDS Integers, Sequences, FiniteSets, TLC

VARIABLES
    state,         \* TokenReader.state: the Cell<State> of the lexer
    source,        \* parse: the text being lexed
    offset,        \* parse: count of characters taken from the iterator
    tokens,        \* parse: the tokens emitted so far
    current_char,  \* parse: the character under examination (None at the end)
    prev_char,     \* parse: the character examined before it
    it,            \* parse: the iteration counter
    pc,            \* where the caller of parse stands: idle, loop, flush, done
    result,        \* what parse returned: [status, tokens, err]
    stack,         \* RpnTreeBuilder.stack (top = last element)
    output,        \* RpnTreeBuilder.output
    calls,         \* the calls made on the builder so far: [call, token]
    bres           \* what the last builder call returned: [ok, err]

lexvars == <<state, source, offset, tokens, current_char, prev_char, it, pc, result>>
rpnvars == <<stack, output, calls, bres>>
vars == <<state, source, offset, tokens, current_char, prev_char, it, pc, result,
          stack, output, calls, bres>>

(***************************************************************************)
(* Characters                                                              *)
(***************************************************************************)
None == "<none>"

Digits == {"0", "1", "2", "3", "4", "5", "6", "7", "8", "9"}

\* U+00E9, a letter whose UTF-8 encoding takes two bytes.
EAcute == "e-acute"

\* The letters the model's texts are written with.
Letters == {"a", "b", "c", "d", "e", "f", "g", "h", "i", "j", "k", "l", "m",
            "n", "o", "p", "q", "r", "s", "t", "u", "v", "w", "x", "y", "z",
            "A", EAcute}

is_digit(c) == c \in Digits
is_alphabetic(c) == c \in Letters
is_alphanumeric(c) == is_alphabetic(c) \/ is_digit(c)
is_whitespace(c) == c \in {" ", "\t", "\n", "\r"}

OPERATORS == {"{", "}", "=", "+", "-", "*", "/", "^", "\\", "(", ")", ".", ",",
              "<", ">", ":", "@"}

KEYWORDS == { <<"i", "f">>, <<"e", "l", "s", "e">>, <<"l", "o", "o", "p">>,
              <<"f", "o", "r">>, <<"i", "n">>, <<"m", "a", "t", "c", "h">>,
              <<"m", "u", "t">>, <<"a", "n", "d">>, <<"o", "r">>,
              <<"x", "o", "r">>, <<"n", "o", "t">> }

\* The number of bytes of a character in UTF-8.
len_utf8(c) == IF c = EAcute THEN 2 ELSE 1

(***************************************************************************)
(* Strings as byte strings: source[start..end] slices by byte offsets and  *)
(* panics when an offset is out of range or not on a character boundary.   *)
(***************************************************************************)
RECURSIVE byte_len(_)
byte_len(s) == IF s = <<>> THEN 0 ELSE len_utf8(Head(s)) + byte_len(Tail(s))

\* The byte offset at which the i-th character of s starts (i in 1..Len(s)+1).
char_start(s, i) == byte_len(SubSeq(s, 1, i - 1))

is_char_boundary(s, b) == \E i \in 1..(Len(s) + 1) : char_start(s, i) = b

\* Whether &source[from..to] is a slice the string has (it panics otherwise).
slice_ok(s, from, to) ==
    /\ 0 <= from /\ from <= to /\ to <= byte_len(s)
    /\ is_char_boundary(s, from) /\ is_char_boundary(s, to)

\* &source[from..to], the characters between the two byte offsets.
slice(s, from, to) ==
    LET first == CHOOSE i \in 1..(Len(s) + 1) : char_start(s, i) = from
        last == CHOOSE i \in 1..(Len(s) + 1) : char_start(s, i) = to
    IN SubSeq(s, first, last - 1)

(***************************************************************************)
(* Numeric conversions (str::parse::<i32>, str::parse::<f32>): a record    *)
(* [ok, value], value meaningful when ok.                                  *)
(***************************************************************************)
I32Max == 2147483647

digit_value(c) ==
    CASE c = "0" -> 0 [] c = "1" -> 1 [] c = "2" -> 2 [] c = "3" -> 3
      [] c = "4" -> 4 [] c = "5" -> 5 [] c = "6" -> 6 [] c = "7" -> 7
      [] c = "8" -> 8 [] c = "9" -> 9

NoValue == [m |-> 0, e |-> 0]
ParseErr == [ok |-> FALSE, value |-> NoValue]
Parsed(m, e) == [ok |-> TRUE, value |-> [m |-> m, e |-> e]]

\* Mutant: a value beyond i32 is replaced by the largest i32.
RECURSIVE parse_i32_from_saturating(_, _)
parse_i32_from_saturating(s, acc) ==
    IF s = <<>> THEN Parsed(acc, 0)
    ELSE IF ~is_digit(Head(s)) THEN ParseErr
    ELSE LET d == digit_value(Head(s))
         IN IF acc > (I32Max - d) \div 10 THEN Parsed(I32Max, 0)
            ELSE parse_i32_from_saturating(Tail(s), acc * 10 + d)

\* parse::<i32> of a text, digit by digit with the overflow check of i32:
\* acc is the value of the digits read so far.
RECURSIVE parse_i32_from(_, _)
parse_i32_from(s, acc) ==
    IF s = <<>> THEN Parsed(acc, 0)
    ELSE IF ~is_digit(Head(s)) THEN ParseErr
    ELSE LET d == digit_value(Head(s))
         IN IF acc > (I32Max - d) \div 10 THEN ParseErr
            ELSE parse_i32_from(Tail(s), acc * 10 + d)

parse_i32(s) == IF s = <<>> THEN ParseErr ELSE parse_i32_from(s, 0)

\* A decimal m / 10^e without trailing zeros in its fraction.
RECURSIVE normal(_)
normal(v) ==
    IF v.e > 0 /\ v.m % 10 = 0 THEN normal([m |-> v.m \div 10, e |-> v.e - 1])
    ELSE v

count_of(s, c) == Cardinality({i \in 1..Len(s) : s[i] = c})

without(s, c) == SelectSeq(s, LAMBDA x : x # c)

\* The number a text of digits writes.
RECURSIVE digits_value(_, _)
digits_value(s, acc) ==
    IF s = <<>> THEN acc ELSE digits_value(Tail(s), acc * 10 + digit_value(Head(s)))

\* parse::<f32> of the texts the lexer can hand over (digits, '.', '%'):
\* digits with at most one '.', at least one digit; anything else is an error.
parse_f32(s) ==
    IF \/ \E i \in 1..Len(s) : ~(is_digit(s[i]) \/ s[i] = ".")
       \/ count_of(s, ".") > 1
       \/ Len(without(s, ".")) = 0
        THEN ParseErr
        ELSE LET dot == IF count_of(s, ".") = 0 THEN Len(s) + 1
                        ELSE CHOOSE i \in 1..Len(s) : s[i] = "."
                 frac == IF dot > Len(s) THEN 0 ELSE Len(s) - dot
             IN [ok |-> TRUE,
                 value |-> normal([m |-> digits_value(without(s, "."), 0), e |-> frac])]

\* Mutant: the percent sign is dropped but the value is not scaled.
get_percent_float_unscaled(float_value) == float_value

get_percent_float(float_value) == normal([m |-> float_value.m, e |-> float_value.e + 2])

(***************************************************************************)
(* Tokens (dto/token.rs)                                                   *)
(***************************************************************************)
Token(kind, payload, value, pos) ==
    [kind |-> kind, payload |-> payload, value |-> value, pos |-> pos]

Operator(payload, pos) == Token("Operator", payload, NoValue, pos)
Identifier(name, pos) == Token("Identifier", name, NoValue, pos)
Function(name, pos) == Token("Function", name, NoValue, pos)
IntConstant(n, pos) == Token("IntConstant", <<>>, [m |-> n, e |-> 0], pos)
FloatConstant(v, pos) == Token("FloatConstant", <<>>, v, pos)
StringConstant(text, pos) == Token("StringConstant", text, NoValue, pos)
NewLine(pos) == Token("NewLine", <<>>, NoValue, pos)

SyntaxError(pos, message) == [pos |-> pos, message |-> message]
NoError == SyntaxError(0, "")

(***************************************************************************)
(* The lexer's state machine (parser/tokenreader.rs)                       *)
(***************************************************************************)
\* TokenReader::new
NewState ==
    [expected |-> "Nothing", start_offset |-> 0, is_ready_to_push |-> FALSE,
     is_prev_escape_symbol |-> FALSE, identifier_is_function |-> FALSE,
     is_inside_block_comment |-> FALSE, is_inside_string |-> FALSE,
     is_percent_float |-> FALSE]

\* Result<State, SyntaxError>
Ok(st) == [ok |-> TRUE, state |-> st, err |-> NoError]
Err(pos, message, st) == [ok |-> FALSE, state |-> st, err |-> SyntaxError(pos, message)]

\* Mutant: a newline run keeps the start offset of the lexeme before it.
reduce_state_nothing_stale_start(symbol, off, st) ==
    IF is_digit(symbol)
        THEN Ok([st EXCEPT !.expected = "IntNumber", !.start_offset = off])
    ELSE IF is_alphabetic(symbol)
        THEN Ok([st EXCEPT !.expected = "Identifier", !.start_offset = off])
    ELSE IF symbol = "\n"
        THEN Ok([st EXCEPT !.expected = "Newline"])
    ELSE IF is_whitespace(symbol)
        THEN Ok([st EXCEPT !.start_offset = off])
    ELSE IF symbol \in OPERATORS
        THEN Ok([st EXCEPT !.expected = "Operator", !.start_offset = off])
    ELSE IF symbol = "\""
        THEN Ok([st EXCEPT !.expected = "StringConstant", !.is_inside_string = TRUE,
                           !.start_offset = off])
    ELSE IF symbol = "_"
        THEN Err(off, "Identifier names must not start with an underscore", st)
    ELSE Err(off, "Unexpected symbol", st)

reduce_state_nothing(symbol, off, st) ==
    IF is_digit(symbol)
        THEN Ok([st EXCEPT !.expected = "IntNumber", !.start_offset = off])
    ELSE IF is_alphabetic(symbol)
        THEN Ok([st EXCEPT !.expected = "Identifier", !.start_offset = off])
    ELSE IF symbol = "\n"
        THEN Ok([st EXCEPT !.expected = "Newline", !.start_offset = off])
    ELSE IF is_whitespace(symbol)
        THEN Ok([st EXCEPT !.start_offset = off])
    ELSE IF symbol \in OPERATORS
        THEN Ok([st EXCEPT !.expected = "Operator", !.start_offset = off])
    ELSE IF symbol = "\""
        THEN Ok([st EXCEPT !.expected = "StringConstant", !.is_inside_string = TRUE,
                           !.start_offset = off])
    ELSE IF symbol = "_"
        THEN Err(off, "Identifier names must not start with an underscore", st)
    ELSE Err(off, "Unexpected symbol", st)

\* Mutant: a letter closes the number like any other character.
reduce_state_int_number_letter_closes(symbol, off, st) ==
    IF is_digit(symbol) THEN Ok(st)
    ELSE IF symbol = "%"
        THEN Ok([st EXCEPT !.expected = "FloatNumber", !.is_percent_float = TRUE])
    ELSE IF symbol = "."
        THEN Ok([st EXCEPT !.expected = "FloatNumber"])
    ELSE Ok([st EXCEPT !.is_ready_to_push = TRUE])

reduce_state_int_number(symbol, off, st) ==
    IF is_digit(symbol) THEN Ok(st)
    ELSE IF is_alphabetic(symbol)
        THEN Err(off, "Invalid character in integer number record", st)
    ELSE IF symbol = "%"
        THEN Ok([st EXCEPT !.expected = "FloatNumber", !.is_percent_float = TRUE])
    ELSE IF symbol = "."
        THEN Ok([st EXCEPT !.expected = "FloatNumber"])
    ELSE Ok([st EXCEPT !.is_ready_to_push = TRUE])

\* Mutant: a second percent sign is taken like the first.
reduce_state_float_number_any_percent(symbol, off, st) ==
    IF is_digit(symbol) THEN Ok(st)
    ELSE IF is_alphabetic(symbol)
        THEN Err(off, "Invalid character in floating point number record", st)
    ELSE IF symbol = "%"
        THEN Ok([st EXCEPT !.is_percent_float = TRUE])
    ELSE Ok([st EXCEPT !.is_ready_to_push = TRUE])

reduce_state_float_number(symbol, off, st) ==
    IF is_digit(symbol) THEN Ok(st)
    ELSE IF is_alphabetic(symbol)
        THEN Err(off, "Invalid character in floating point number record", st)
    ELSE IF symbol = "%"
        THEN IF ~st.is_percent_float
                 THEN Ok([st EXCEPT !.is_percent_float = TRUE])
                 ELSE Err(off, "You cannot use the percent symbol twice on the same number", st)
    ELSE Ok([st EXCEPT !.is_ready_to_push = TRUE])

\* Mutant: the bracket that marks a call site is taken into the name.
reduce_state_identifier_takes_bracket(symbol, st) ==
    IF is_alphanumeric(symbol) THEN Ok(st)
    ELSE IF symbol = "_" THEN Ok(st)
    ELSE IF symbol \in {"(", "{"}
        THEN Ok([st EXCEPT !.identifier_is_function = TRUE])
    ELSE Ok([st EXCEPT !.is_ready_to_push = TRUE])

reduce_state_identifier(symbol, st) ==
    IF is_alphanumeric(symbol) THEN Ok(st)
    ELSE IF symbol = "_" THEN Ok(st)
    ELSE IF symbol \in {"(", "{"}
        THEN Ok([st EXCEPT !.is_ready_to_push = TRUE, !.identifier_is_function = TRUE])
    ELSE Ok([st EXCEPT !.is_ready_to_push = TRUE])

reduce_state_operator(symbol, prev_symbol, st) ==
    IF prev_symbol \in {"+", "-", "*", "/", "=", "!", "<", ">"}
        THEN IF symbol = "=" THEN Ok(st)
             ELSE IF symbol = ">"
                 THEN Ok([st EXCEPT !.is_ready_to_push = (prev_symbol # "-")])
             ELSE IF symbol = "/"
                 THEN IF prev_symbol = "/"
                          THEN Ok([st EXCEPT !.expected = "LineComment"])
                          ELSE Ok([st EXCEPT !.is_ready_to_push = TRUE])
             ELSE IF symbol = "*"
                 THEN IF prev_symbol = "/"
                          THEN Ok([st EXCEPT !.expected = "BlockComment",
                                             !.is_inside_block_comment = TRUE])
                          ELSE Ok([st EXCEPT !.is_ready_to_push = TRUE])
             ELSE Ok([st EXCEPT !.is_ready_to_push = TRUE])
        ELSE Ok([st EXCEPT !.is_ready_to_push = TRUE])

reduce_state_newline(symbol, st) ==
    IF symbol = "\n" THEN Ok(st) ELSE Ok([st EXCEPT !.is_ready_to_push = TRUE])

reduce_state_string_constant(symbol, st) ==
    IF ~st.is_prev_escape_symbol
        THEN IF symbol = "\"" THEN Ok([st EXCEPT !.is_inside_string = FALSE])
             ELSE IF symbol = "\\" THEN Ok([st EXCEPT !.is_prev_escape_symbol = TRUE])
             ELSE IF st.is_inside_string THEN Ok(st)
             ELSE Ok([st EXCEPT !.is_ready_to_push = TRUE])
        ELSE Ok([st EXCEPT !.is_prev_escape_symbol = FALSE])

reduce_state_block_comment(symbol, prev_symbol, st) ==
    IF prev_symbol = "*"
        THEN IF symbol = "/" THEN Ok([st EXCEPT !.is_inside_block_comment = FALSE])
             ELSE Ok(st)
        ELSE IF st.is_inside_block_comment THEN Ok(st)
             ELSE Ok([st EXCEPT !.is_ready_to_push = TRUE])

reduce_state_line_comment(symbol, st) ==
    IF symbol = "\n" THEN Ok([st EXCEPT !.is_ready_to_push = TRUE]) ELSE Ok(st)

reduce_state(symbol, prev_symbol, off, st) ==
    CASE st.expected = "Nothing" -> reduce_state_nothing(symbol, off, st)
      [] st.expected = "IntNumber" -> reduce_state_int_number(symbol, off, st)
      [] st.expected = "FloatNumber" -> reduce_state_float_number(symbol, off, st)
      [] st.expected = "StringConstant" -> reduce_state_string_constant(symbol, st)
      [] st.expected = "Identifier" -> reduce_state_identifier(symbol, st)
      [] st.expected = "Operator" -> reduce_state_operator(symbol, prev_symbol, st)
      [] st.expected = "Newline" -> reduce_state_newline(symbol, st)
      [] st.expected = "BlockComment" -> reduce_state_block_comment(symbol, prev_symbol, st)
      [] st.expected = "LineComment" -> reduce_state_line_comment(symbol, st)

\* Mutant: the call-site flag is looked at before the keyword list.
get_keyword_or_identifier_flag_first(token_content, start, maybe_identifier_is_function) ==
    IF maybe_identifier_is_function THEN Function(token_content, start)
    ELSE IF token_content \in KEYWORDS THEN Operator(token_content, start)
    ELSE Identifier(token_content, start)

get_keyword_or_identifier(token_content, start, maybe_identifier_is_function) ==
    IF token_content \in KEYWORDS THEN Operator(token_content, start)
    ELSE IF ~maybe_identifier_is_function THEN Identifier(token_content, start)
    ELSE Function(token_content, start)

\* The outcome of a push: status is "ok", "err" (a SyntaxError) or "panic".
Pushed(status, toks, err) == [status |-> status, tokens |-> toks, err |-> err]

push_float_token_if_ready(st, src, start, end, toks, token_content) ==
    IF st.is_percent_float
        THEN IF ~slice_ok(src, start, end - 1) THEN Pushed("panic", toks, NoError)
             ELSE LET parsed == parse_f32(slice(src, start, end - 1))
                  IN IF parsed.ok
                         THEN Pushed("ok",
                                  Append(toks, FloatConstant(get_percent_float(parsed.value), start)),
                                  NoError)
                         ELSE Pushed("err", toks,
                                  SyntaxError(start, "Can't parse percentage number"))
        ELSE LET parsed == parse_f32(token_content)
             IN IF parsed.ok
                    THEN Pushed("ok", Append(toks, FloatConstant(parsed.value, start)), NoError)
                    ELSE Pushed("err", toks, SyntaxError(start, "Can't parse float number"))

\* The token the closed lexeme gives, appended to toks.
token_result(st, src, start, end, toks) ==
    LET token_content == slice(src, start, end)
    IN CASE st.expected = "IntNumber" ->
              LET parsed == parse_i32(token_content)
              IN IF parsed.ok
                     THEN Pushed("ok", Append(toks, IntConstant(parsed.value.m, start)), NoError)
                     ELSE Pushed("err", toks, SyntaxError(start, "Can't parse int number"))
         [] st.expected = "FloatNumber" ->
              push_float_token_if_ready(st, src, start, end, toks, token_content)
         [] st.expected = "StringConstant" ->
              IF slice_ok(src, start + 1, end - 1)
                  THEN Pushed("ok",
                           Append(toks, StringConstant(slice(src, start + 1, end - 1), start)),
                           NoError)
                  ELSE Pushed("panic", toks, NoError)
         [] st.expected = "Identifier" ->
              Pushed("ok",
                  Append(toks, get_keyword_or_identifier(token_content, start,
                                                         st.identifier_is_function)),
                  NoError)
         [] st.expected = "Operator" ->
              Pushed("ok", Append(toks, Operator(token_content, start)), NoError)
         [] st.expected = "Newline" -> Pushed("ok", Append(toks, NewLine(start)), NoError)
         [] st.expected \in {"BlockComment", "LineComment", "Nothing"} ->
              Pushed("ok", toks, NoError)

\* The state push_token_if_ready leaves in the cell when it was ready.
state_after_push(st) ==
    [st EXCEPT !.is_ready_to_push = FALSE, !.expected = "Nothing", !.is_percent_float = FALSE]

\* Mutant: the lexeme is cut one character late (end = offset).
push_token_if_ready_late_end(st, src, off, toks) ==
    IF st.is_ready_to_push
        THEN LET start == st.start_offset
                 end == off
             IN IF ~slice_ok(src, start, end)
                    THEN [status |-> "panic", state |-> st, tokens |-> toks, err |-> NoError]
                    ELSE LET res == token_result(st, src, start, end, toks)
                         IN [status |-> res.status,
                             state |-> IF res.status = "panic" THEN st ELSE state_after_push(st),
                             tokens |-> res.tokens, err |-> res.err]
        ELSE [status |-> "ok", state |-> st, tokens |-> toks, err |-> NoError]

\* push_token_if_ready: [status, state, tokens, err].
push_token_if_ready(st, src, off, toks) ==
    IF st.is_ready_to_push
        THEN LET start == st.start_offset
                 end == off - 1
             IN IF ~slice_ok(src, start, end)
                    THEN [status |-> "panic", state |-> st, tokens |-> toks, err |-> NoError]
                    ELSE LET res == token_result(st, src, start, end, toks)
                         IN [status |-> res.status,
                             state |-> IF res.status = "panic" THEN st ELSE state_after_push(st),
                             tokens |-> res.tokens, err |-> res.err]
        ELSE [status |-> "ok", state |-> st, tokens |-> toks, err |-> NoError]

(***************************************************************************)
(* TokenReader::parse, one loop iteration per step                         *)
(***************************************************************************)
IterationCap == 1000

NoResult == [status |-> "none", tokens |-> <<>>, err |-> NoError]
Returned(status, toks, err) == [status |-> status, tokens |-> toks, err |-> err]

\* iter.next() after taken characters have been taken.
next_char(src, taken) == IF taken < Len(src) THEN src[taken + 1] ELSE None

\* let mut ... : parse is entered with the text; the cell keeps its state.
ParseCall(text) ==
    /\ pc = "idle"
    /\ source' = text
    /\ offset' = 0
    /\ tokens' = <<>>
    /\ current_char' = None
    /\ prev_char' = "\n"
    /\ it' = 0
    /\ pc' = "loop"
    /\ result' = NoResult
    /\ UNCHANGED <<state, stack, output, calls, bres>>

\* One iteration of the loop of parse.
ParseLoop ==
    /\ pc = "loop"
    /\ LET advance == ~state.is_ready_to_push
           prev1 == IF advance
                        THEN (IF current_char = None THEN "\n" ELSE current_char)
                        ELSE prev_char
           cur1 == IF advance THEN next_char(source, offset) ELSE current_char
           off1 == IF advance THEN offset + 1 ELSE offset
           push == push_token_if_ready(state, source, off1, tokens)
           red == reduce_state(cur1, prev1, off1 - 1, push.state)
       IN /\ prev_char' = prev1
          /\ current_char' = cur1
          /\ offset' = off1
          /\ tokens' = push.tokens
          /\ IF push.status # "ok"
                 THEN /\ state' = push.state
                      /\ it' = it
                      /\ pc' = "done"
                      /\ result' = Returned(push.status, <<>>, push.err)
             ELSE IF cur1 = None
                 THEN /\ state' = push.state
                      /\ it' = it
                      /\ pc' = "flush"
                      /\ result' = result
             ELSE IF ~red.ok
                 THEN /\ state' = push.state
                      /\ it' = it
                      /\ pc' = "done"
                      /\ result' = Returned("err", <<>>, red.err)
             ELSE /\ state' = red.state
                  /\ it' = it + 1
                  /\ IF it + 1 > IterationCap
                         THEN pc' = "done" /\ result' = Returned("panic", <<>>, NoError)
                         ELSE pc' = "loop" /\ result' = result
    /\ UNCHANGED <<source, stack, output, calls, bres>>

\* parse is entered again on the reader an earlier call has returned from
\* (a call that aborted has ended the process).
ParseAgain(text) ==
    /\ pc = "done"
    /\ result.status # "panic"
    /\ source' = text
    /\ offset' = 0
    /\ tokens' = <<>>
    /\ current_char' = None
    /\ prev_char' = "\n"
    /\ it' = 0
    /\ pc' = "loop"
    /\ result' = NoResult
    /\ UNCHANGED <<state, stack, output, calls, bres>>

\* After the loop: the pending lexeme is flushed and the tokens returned.
ParseFinish ==
    /\ pc = "flush"
    /\ LET push == push_token_if_ready([state EXCEPT !.is_ready_to_push = TRUE],
                                       source, offset, tokens)
       IN /\ state' = push.state
          /\ tokens' = push.tokens
          /\ result' = IF push.status = "ok" THEN Returned("ok", push.tokens, NoError)
                       ELSE Returned(push.status, <<>>, push.err)
    /\ pc' = "done"
    /\ UNCHANGED <<source, offset, current_char, prev_char, it, stack, output, calls, bres>>

\* parse run to its return from the loop iteration n on: [result, state],
\* the value returned and the state left in the cell.
RECURSIVE parse_loop(_, _, _, _, _, _, _)
parse_loop(st, src, off, toks, cur, prev, n) ==
    LET advance == ~st.is_ready_to_push
        prev1 == IF advance THEN (IF cur = None THEN "\n" ELSE cur) ELSE prev
        cur1 == IF advance THEN next_char(src, off) ELSE cur
        off1 == IF advance THEN off + 1 ELSE off
        push == push_token_if_ready(st, src, off1, toks)
        red == reduce_state(cur1, prev1, off1 - 1, push.state)
        last == push_token_if_ready([push.state EXCEPT !.is_ready_to_push = TRUE],
                                    src, off1, push.tokens)
    IN IF push.status # "ok"
           THEN [result |-> Returned(push.status, <<>>, push.err), state |-> push.state]
       ELSE IF cur1 = None
           THEN [result |-> IF last.status = "ok"
                                THEN Returned("ok", last.tokens, NoError)
                                ELSE Returned(last.status, <<>>, last.err),
                 state |-> last.state]
       ELSE IF ~red.ok
           THEN [result |-> Returned("err", <<>>, red.err), state |-> push.state]
       ELSE IF n + 1 > IterationCap
           THEN [result |-> Returned("panic", <<>>, NoError), state |-> red.state]
       ELSE parse_loop(red.state, src, off1, push.tokens, cur1, prev1, n + 1)

\* TokenReader::parse as a whole, on a reader whose cell holds st.
parse(st, src) == parse_loop(st, src, 0, <<>>, None, "\n", 0)

(***************************************************************************)
(* The expression builder (parser/rpntreebuilder.rs, dto/node.rs)          *)
(***************************************************************************)
\* Option<Token>::None
NoToken == Token("None", <<>>, NoValue, 0)

\* Node::from: a node wraps one token and has no children.
Node_from(token) == [data |-> token, node_type |-> "Token"]

\* Mutant: == and != are ranked with the comparisons.
get_priority_equality_as_comparison(operator) ==
    IF operator = <<".">> THEN 15
    ELSE IF operator \in {<<"u", "-">>, <<"n", "o", "t">>} THEN 13
    ELSE IF operator = <<"^">> THEN 12
    ELSE IF operator \in {<<"*">>, <<"/">>} THEN 11
    ELSE IF operator \in {<<"+">>, <<"-">>} THEN 10
    ELSE IF operator \in {<<"<">>, <<"<", "=">>, <<">">>, <<">", "=">>, <<"i", "s">>,
                          <<"=", "=">>, <<"!", "=">>} THEN 9
    ELSE IF operator = <<"a", "n", "d">> THEN 7
    ELSE IF operator \in {<<"o", "r">>, <<"x", "o", "r">>} THEN 6
    ELSE IF operator \in {<<"i", "f">>, <<"m", "a", "t", "c", "h">>} THEN 2
    ELSE IF operator \in {<<"=">>, <<"+", "=">>, <<"-", "=">>, <<"*", "=">>, <<"/", "=">>} THEN 1
    ELSE 0

get_priority(operator) ==
    IF operator = <<".">> THEN 15
    ELSE IF operator \in {<<"u", "-">>, <<"n", "o", "t">>} THEN 13
    ELSE IF operator = <<"^">> THEN 12
    ELSE IF operator \in {<<"*">>, <<"/">>} THEN 11
    ELSE IF operator \in {<<"+">>, <<"-">>} THEN 10
    ELSE IF operator \in {<<"<">>, <<"<", "=">>, <<">">>, <<">", "=">>, <<"i", "s">>} THEN 9
    ELSE IF operator \in {<<"=", "=">>, <<"!", "=">>} THEN 8
    ELSE IF operator = <<"a", "n", "d">> THEN 7
    ELSE IF operator \in {<<"o", "r">>, <<"x", "o", "r">>} THEN 6
    ELSE IF operator \in {<<"i", "f">>, <<"m", "a", "t", "c", "h">>} THEN 2
    ELSE IF operator \in {<<"=">>, <<"+", "=">>, <<"-", "=">>, <<"*", "=">>, <<"/", "=">>} THEN 1
    ELSE 0

\* Result<(), SyntaxError> together with the stack and the output left behind.
Built(ok, stk, out, err) == [ok |-> ok, stack |-> stk, output |-> out, err |-> err]

back(stk) == stk[Len(stk)]
pop_back(stk) == SubSeq(stk, 1, Len(stk) - 1)

\* Mutant: a function on the stack waits like an operator of priority 0.
is_need_push_to_output_function_waits(node, op) ==
    IF node.data.kind = "Function" THEN 0 > get_priority(op)
    ELSE IF node.data.kind = "Operator"
        THEN get_priority(node.data.payload) >= get_priority(op)
    ELSE FALSE

\* Mutant: an operator on the stack is popped only by one of lower priority.
is_need_push_to_output_strict(node, op) ==
    IF node.data.kind = "Function" THEN TRUE
    ELSE IF node.data.kind = "Operator"
        THEN get_priority(node.data.payload) > get_priority(op)
    ELSE FALSE

\* Whether the operator op sends the node on top of the stack to the output.
is_need_push_to_output(node, op) ==
    IF node.data.kind = "Function" THEN TRUE
    ELSE IF node.data.kind = "Operator"
        THEN get_priority(node.data.payload) >= get_priority(op)
    ELSE FALSE

RECURSIVE handle_operator(_, _, _, _)
handle_operator(op, pos, stk, out) ==
    IF stk = <<>> THEN Built(TRUE, stk, out, NoError)
    ELSE IF back(stk).data = NoToken
        THEN Built(FALSE, stk, out, SyntaxError(pos, "Unexpected node without token"))
    ELSE IF is_need_push_to_output(back(stk), op)
        THEN handle_operator(op, pos, pop_back(stk), Append(out, back(stk)))
    ELSE Built(TRUE, stk, out, NoError)

\* Mutant: what a closing parenthesis pops is dropped instead of output.
RECURSIVE handle_right_bracket_drops(_, _, _)
handle_right_bracket_drops(pos, stk, out) ==
    IF stk = <<>>
        THEN Built(FALSE, stk, out,
                 SyntaxError(pos, "This closing parenthesis has no matching opening parenthesis"))
    ELSE IF back(stk).data.kind = "Operator" /\ back(stk).data.payload = <<"(">>
        THEN Built(TRUE, pop_back(stk), out, NoError)
    ELSE handle_right_bracket_drops(pos, pop_back(stk), out)

\* Mutant: the opening parenthesis found is left on the stack.
RECURSIVE handle_right_bracket_leaves_open(_, _, _)
handle_right_bracket_leaves_open(pos, stk, out) ==
    IF stk = <<>>
        THEN Built(FALSE, stk, out,
                 SyntaxError(pos, "This closing parenthesis has no matching opening parenthesis"))
    ELSE IF back(stk).data.kind = "Operator" /\ back(stk).data.payload = <<"(">>
        THEN Built(TRUE, stk, out, NoError)
    ELSE handle_right_bracket_leaves_open(pos, pop_back(stk), Append(out, back(stk)))

\* Mutant: a closing parenthesis that finds no opening one is let through.
RECURSIVE handle_right_bracket_lenient(_, _, _)
handle_right_bracket_lenient(pos, stk, out) ==
    IF stk = <<>> THEN Built(TRUE, stk, out, NoError)
    ELSE IF back(stk).data.kind = "Operator" /\ back(stk).data.payload = <<"(">>
        THEN Built(TRUE, pop_back(stk), out, NoError)
    ELSE handle_right_bracket_lenient(pos, pop_back(stk), Append(out, back(stk)))

RECURSIVE handle_right_bracket(_, _, _)
handle_right_bracket(pos, stk, out) ==
    IF stk = <<>>
        THEN Built(FALSE, stk, out,
                 SyntaxError(pos, "This closing parenthesis has no matching opening parenthesis"))
    ELSE IF back(stk).data = NoToken
        THEN Built(FALSE, stk, out, SyntaxError(pos, "Unexpected node without token"))
    ELSE IF back(stk).data.kind = "Operator" /\ back(stk).data.payload = <<"(">>
        THEN Built(TRUE, pop_back(stk), out, NoError)
    ELSE handle_right_bracket(pos, pop_back(stk), Append(out, back(stk)))

\* Mutant: a NewLine token ends the expression as the separator call does.
push_token_newline_closes(token, stk, out) ==
    IF token.kind \in {"FloatConstant", "IntConstant", "StringConstant", "Identifier"}
        THEN Built(TRUE, stk, Append(out, Node_from(token)), NoError)
    ELSE IF token.kind = "Function"
        THEN Built(TRUE, Append(stk, Node_from(token)), out, NoError)
    ELSE IF token.kind = "Operator"
        THEN IF token.payload = <<"(">>
                 THEN Built(TRUE, Append(stk, Node_from(token)), out, NoError)
             ELSE IF token.payload = <<")">>
                 THEN handle_right_bracket(token.pos, stk, out)
             ELSE LET handled == handle_operator(token.payload, token.pos, stk, out)
                  IN IF handled.ok
                         THEN Built(TRUE, Append(handled.stack, Node_from(token)),
                                    handled.output, NoError)
                         ELSE handled
    ELSE Built(FALSE, <<>>, out \o stk,
             SyntaxError(token.pos, "No need to pass the NewLine token to the push_token function, call notify_met_separator instead"))

\* RpnTreeBuilder::push_token
push_token(token, stk, out) ==
    IF token.kind \in {"FloatConstant", "IntConstant", "StringConstant", "Identifier"}
        THEN Built(TRUE, stk, Append(out, Node_from(token)), NoError)
    ELSE IF token.kind = "Function"
        THEN Built(TRUE, Append(stk, Node_from(token)), out, NoError)
    ELSE IF token.kind = "Operator"
        THEN IF token.payload = <<"(">>
                 THEN Built(TRUE, Append(stk, Node_from(token)), out, NoError)
             ELSE IF token.payload = <<")">>
                 THEN handle_right_bracket(token.pos, stk, out)
             ELSE LET handled == handle_operator(token.payload, token.pos, stk, out)
                  IN IF handled.ok
                         THEN Built(TRUE, Append(handled.stack, Node_from(token)),
                                    handled.output, NoError)
                         ELSE handled
    ELSE Built(FALSE, stk, out,
             SyntaxError(token.pos, "No need to pass the NewLine token to the push_token function, call notify_met_separator instead"))

\* Mutant: the separator hands the output over and starts an empty one.
RECURSIVE notify_met_separator_clears(_, _, _)
notify_met_separator_clears(pos, stk, out) ==
    IF stk = <<>> THEN Built(TRUE, stk, <<>>, NoError)
    ELSE IF back(stk).data.kind = "Operator"
            /\ back(stk).data.payload \in {<<"(">>, <<")">>}
        THEN Built(FALSE, stk, out,
                 SyntaxError(back(stk).data.pos,
                             "The expression contains an extra or inconsistent parenthesis"))
    ELSE notify_met_separator_clears(pos, pop_back(stk), Append(out, back(stk)))

\* RpnTreeBuilder::notify_met_separator
RECURSIVE notify_met_separator(_, _, _)
notify_met_separator(pos, stk, out) ==
    IF stk = <<>> THEN Built(TRUE, stk, out, NoError)
    ELSE IF back(stk).data = NoToken
        THEN Built(FALSE, stk, out, SyntaxError(pos, "Unexpected node without token"))
    ELSE IF back(stk).data.kind = "Operator"
            /\ back(stk).data.payload \in {<<"(">>, <<")">>}
        THEN Built(FALSE, stk, out,
                 SyntaxError(back(stk).data.pos,
                             "The expression contains an extra or inconsistent parenthesis"))
    ELSE notify_met_separator(pos, pop_back(stk), Append(out, back(stk)))

NoCall == [ok |-> TRUE, err |-> NoError]

\* A call of push_token by the caller.
PushToken(token) ==
    /\ LET built == push_token(token, stack, output)
       IN /\ stack' = built.stack
          /\ output' = built.output
          /\ bres' = [ok |-> built.ok, err |-> built.err]
    /\ calls' = Append(calls, [call |-> "push_token", token |-> token])
    /\ UNCHANGED lexvars

\* A call of notify_met_separator by the caller.
NotifyMetSeparator(pos) ==
    /\ LET built == notify_met_separator(pos, stack, output)
       IN /\ stack' = built.stack
          /\ output' = built.output
          /\ bres' = [ok |-> built.ok, err |-> built.err]
    /\ calls' = Append(calls, [call |-> "notify_met_separator", token |-> NewLine(pos)])
    /\ UNCHANGED lexvars

(***************************************************************************)
(* Specifications                                                          *)
(***************************************************************************)
\* The texts of at most n characters over an alphabet.
Texts(alphabet, n) == UNION {[1..k -> alphabet] : k \in 0..n}

\* A fresh TokenReader and a fresh RpnTreeBuilder.
Init ==
    /\ state = NewState
    /\ source = <<>>
    /\ offset = 0
    /\ tokens = <<>>
    /\ current_char = None
    /\ prev_char = "\n"
    /\ it = 0
    /\ pc = "idle"
    /\ result = NoResult
    /\ stack = <<>>
    /\ output = <<>>
    /\ calls = <<>>
    /\ bres = NoCall

\* The lexer called once, on a text of a given set.
Lex(texts) ==
    \/ pc = "idle" /\ \E text \in texts : ParseCall(text)
    \/ ParseLoop
    \/ ParseFinish

\* Spec: the lexer on any short text over characters of every class.
MaxLen == 4
Alphabet == {"1", "a", "(", "\"", "\\", "\n", " ", "/", "*", "=", "."}
Next == Lex(Texts(Alphabet, MaxLen))
Spec == Init /\ [][Next]_vars

\* Concatenations of a text of each set.
Joined(pres, words, posts) == {pre \o word \o post : pre \in pres, word \in words, post \in posts}

\* SpecIdent: the lexer on a word (every keyword, and names that are not
\* keywords) standing after and before a few other characters.
MaxBefore == 1
MaxAfter == 2
Before == {" ", "(", "\n", "="}
After == {" ", "(", "{", "a", "\n"}
Words == KEYWORDS \cup { <<"f">>, <<"i">>, <<"i", "f", "x">>, <<"o", "r", "1">> }
NextIdent == Lex(Joined(Texts(Before, MaxBefore), Words, Texts(After, MaxAfter)))
SpecIdent == Init /\ [][NextIdent]_vars

\* SpecNum: the lexer on texts of digits, '.', '%' and delimiters.
MaxNumLen == 5
NumAlphabet == {"0", "1", "2", ".", "%", " ", "+"}
NextNum == Lex(Texts(NumAlphabet, MaxNumLen))
SpecNum == Init /\ [][NextNum]_vars

\* SpecStr: the lexer on texts of quotes, backslashes, newlines and a digit.
MaxStrLen == 5
StrAlphabet == {"\"", "\\", "\n", "1", " "}
NextStr == Lex(Texts(StrAlphabet, MaxStrLen))
SpecStr == Init /\ [][NextStr]_vars

\* SpecRpn: any calls on one builder, the tokens standing one character apart.
MaxCalls == 5
RpnTokens(pos) ==
    {Identifier(<<"a">>, pos), Function(<<"f">>, pos), Operator(<<"(">>, pos),
     Operator(<<")">>, pos), Operator(<<"+">>, pos), Operator(<<"*">>, pos),
     Operator(<<",">>, pos), NewLine(pos)}
NextRpn ==
    \/ Len(calls) < MaxCalls /\ \E token \in RpnTokens(Len(calls)) : PushToken(token)
    \/ Len(calls) < MaxCalls /\ NotifyMetSeparator(Len(calls))
SpecRpn == Init /\ [][NextRpn]_vars

\* The operators of the precedence table, by level.
Level15 == {<<".">>}
Level13 == {<<"u", "-">>, <<"n", "o", "t">>}
Level12 == {<<"^">>}
Level11 == {<<"*">>, <<"/">>}
Level10 == {<<"+">>, <<"-">>}
Level9 == {<<"<">>, <<"<", "=">>, <<">">>, <<">", "=">>, <<"i", "s">>}
Level8 == {<<"=", "=">>, <<"!", "=">>}
Level7 == {<<"a", "n", "d">>}
Level6 == {<<"o", "r">>, <<"x", "o", "r">>}
Level2 == {<<"i", "f">>, <<"m", "a", "t", "c", "h">>}
Level1 == {<<"=">>, <<"+", "=">>, <<"-", "=">>, <<"*", "=">>, <<"/", "=">>}
TableOperators ==
    Level15 \cup Level13 \cup Level12 \cup Level11 \cup Level10 \cup Level9
        \cup Level8 \cup Level7 \cup Level6 \cup Level2 \cup Level1

\* SpecExpr: an infix expression pushed token by token (operand, operator,
\* operand, ...), then the separator.  The first three operands are of every
\* kind and the first two operators are any of the table.
MaxExprLen == 7
Names == <<"a", "b", "c", "d", "e">>
Operands(n) ==
    IF n < 5
        THEN {Identifier(<<Names[(n \div 2) + 1]>>, n), IntConstant(n + 1, n),
              FloatConstant([m |-> 5, e |-> 1], n), StringConstant(<<"s">>, n)}
        ELSE {Identifier(<<Names[((n \div 2) % Len(Names)) + 1]>>, n)}
Operators(n) ==
    IF n < 5 THEN {Operator(op, n) : op \in TableOperators}
    ELSE {Operator(<<"*">>, n), Operator(<<"+">>, n)}
ExprTokens(n) == IF n % 2 = 0 THEN Operands(n) ELSE Operators(n)
OnlyPushes == \A i \in 1..Len(calls) : calls[i].call = "push_token"
NextExpr ==
    \/ Len(calls) < MaxExprLen /\ OnlyPushes
           /\ \E token \in ExprTokens(Len(calls)) : PushToken(token)
    \/ OnlyPushes /\ Len(calls) % 2 = 1 /\ NotifyMetSeparator(Len(calls))
SpecExpr == Init /\ [][NextExpr]_vars

\* SpecComment: the lexer on one comment between a text before and a text after.
MaxBody == 2
LineBody == {"_", "$", "\"", "/", "*"}
BlockBody == {"_", "$", "\"", "/", "*", "\n"}
Pres == { <<>>, <<"1">>, <<"a", " ">>, <<"+">> }
LinePosts == { <<>>, <<"\n">>, <<"\n", "1">> }
BlockPosts == LinePosts \cup { <<"a">>, <<"=">>, <<" ", "2">> }
HasStarSlash(text) == \E i \in 1..(Len(text) - 1) : text[i] = "*" /\ text[i + 1] = "/"
LineComments == { <<"/", "/">> \o body : body \in Texts(LineBody, MaxBody) }
BlockComments ==
    { <<"/", "*">> \o body \o <<"*", "/">> :
          body \in {b \in Texts(BlockBody, MaxBody) : ~HasStarSlash(b)} }
NextComment ==
    \/ Lex(Joined(Pres, LineComments, LinePosts))
    \/ Lex(Joined(Pres, BlockComments, BlockPosts))
SpecComment == Init /\ [][NextComment]_vars

\* SpecOp: the lexer on a two-character operator between a text before and
\* a text after.
MaxOpAfter == 1
OpFirst == {"+", "-", "*", "/", "=", "!", "<", ">"}
TwoCharOps == { <<c, "=">> : c \in OpFirst } \cup { <<"-", ">">> }
OpBefore == { <<>>, <<"a">>, <<"1", " ">> }
OpAfter == {" ", "b", "1", "("}
NextOp == Lex(Joined(OpBefore, TwoCharOps, Texts(OpAfter, MaxOpAfter)))
SpecOp == Init /\ [][NextOp]_vars

\* SpecReuse: one reader given text after text.
MaxReuseLen == 3
ReuseAlphabet == {"a", "(", "1", "%", "\""}
NextReuse ==
    \/ Lex(Texts(ReuseAlphabet, MaxReuseLen))
    \/ pc = "done" /\ \E text \in Texts(ReuseAlphabet, MaxReuseLen) : ParseAgain(text)
SpecReuse == Init /\ [][NextReuse]_vars

\* SpecErr: the lexer on texts of digits, letters, '_', '$' and delimiters.
MaxErrLen == 4
ErrAlphabet == {"1", "a", "_", "$", " ", "+"}
NextErr == Lex(Texts(ErrAlphabet, MaxErrLen))
SpecErr == Init /\ [][NextErr]_vars

\* SpecBig: the lexer on digit sequences around the largest i32,
\* 2147483647, between a text before and a text after.
MaxZeros == 1
Zeros == Texts({"0"}, MaxZeros)
BigNumbers ==
    { lead \o <<"2", "1", "4", "7", "4", "8", "3", "6", "4">> \o <<d>> \o tail :
          lead \in Zeros, d \in {"6", "7", "8", "9"}, tail \in Zeros }
    \cup { <<"2", "1", "4", "7", "4", "8", "3", "6", "5", "0">>,
           <<"3", "0", "0", "0", "0", "0", "0", "0", "0", "0">>,
           <<"9", "9", "9", "9", "9", "9", "9", "9", "9", "9">> }
BigBefore == { <<>>, <<" ">>, <<"a", "+">> }
BigAfter == { <<>>, <<" ">>, <<"+", "1">> }
NextBig == Lex(Joined(BigBefore, BigNumbers, BigAfter))
SpecBig == Init /\ [][NextBig]_vars

\* SpecPriority: operators of every spelling pushed one after another.
MaxOps == 2
UnlistedOperators ==
    { <<"(">>, <<",">>, <<":">>, <<"-", ">">>, <<"{">>, <<"@">>, <<"=", "=", "=">>,
      <<"e", "l", "s", "e">>, <<"l", "o", "o", "p">>, <<"f", "o", "r">>, <<"i", "n">>,
      <<"m", "u", "t">> }
Spellings == TableOperators \cup UnlistedOperators
NextPriority ==
    Len(calls) < MaxOps /\ \E op \in Spellings : PushToken(Operator(op, Len(calls)))
SpecPriority == Init /\ [][NextPriority]_vars

\* SpecLong: the lexer on short texts and on long texts of one repeated
\* character.
MaxLongLen == 1001
MaxShortLen == 2
LongTexts ==
    { [i \in 1..MaxLongLen |-> c] : c \in {"a", " "} } \cup Texts({"a", " "}, MaxShortLen)
NextLong == Lex(LongTexts)
SpecLong == Init /\ [][NextLong]_vars

\* SpecCall: a call f ( x ) pushed token by token, then either the separator
\* or an operator of any spelling, an operand, and so on, then the separator.
MaxCallLen == 6
CallTokens(n) ==
    IF n = 0 THEN {Function(<<"f">>, n), Function(<<"g", "o">>, n)}
    ELSE IF n = 1 THEN {Operator(<<"(">>, n)}
    ELSE IF n = 3 THEN {Operator(<<")">>, n)}
    ELSE IF n = 4 THEN {Operator(op, n) : op \in Spellings \ {<<"(">>}}
    ELSE IF n = 2 THEN Operands(2)
    ELSE IF n = 5 THEN Operands(4)
    ELSE IF n % 2 = 0 THEN {Operator(<<"+">>, n)}
    ELSE {Identifier(<<"z">>, n)}
NextCall ==
    \/ Len(calls) < MaxCallLen /\ OnlyPushes
           /\ \E token \in CallTokens(Len(calls)) : PushToken(token)
    \/ OnlyPushes /\ Len(calls) >= 4 /\ Len(calls) % 2 = 0 /\ NotifyMetSeparator(Len(calls))
SpecCall == Init /\ [][NextCall]_vars

\* SpecParen: ( x op1 y ) op2 z and x op2 ( y op1 z ) pushed token by token,
\* the operators any of the table, then the separator.
MaxParenLen == 7
OpenFirst == calls # <<>> /\ calls[1].token.payload = <<"(">>
ParenOperand(n) == {Identifier(<<Names[(n % Len(Names)) + 1]>>, n), IntConstant(n, n)}
ParenOperator(n) == {Operator(op, n) : op \in TableOperators}
ParenTokens(n) ==
    IF n = 0 THEN {Operator(<<"(">>, n)} \cup ParenOperand(n)
    ELSE IF n >= 7 THEN (IF n % 2 = 1 THEN {Operator(<<"+">>, n)} ELSE {Identifier(<<"z">>, n)})
    ELSE IF OpenFirst
        THEN (IF n \in {1, 3, 6} THEN ParenOperand(n)
              ELSE IF n = 4 THEN {Operator(<<")">>, n)}
              ELSE ParenOperator(n))
    ELSE (IF n \in {3, 5} THEN ParenOperand(n)
          ELSE IF n = 2 THEN {Operator(<<"(">>, n)}
          ELSE IF n = 6 THEN {Operator(<<")">>, n)}
          ELSE ParenOperator(n))
NextParen ==
    \/ Len(calls) < MaxParenLen /\ OnlyPushes
           /\ \E token \in ParenTokens(Len(calls)) : PushToken(token)
    \/ OnlyPushes /\ Len(calls) = 7 /\ NotifyMetSeparator(Len(calls))
SpecParen == Init /\ [][NextParen]_vars

\* SpecUtf: the lexer on texts that hold a letter of two bytes.
MaxUtfLen == 4
UtfAlphabet == {"a", EAcute, "(", " ", "1"}
NextUtf == Lex(Texts(UtfAlphabet, MaxUtfLen))
SpecUtf == Init /\ [][NextUtf]_vars

(***************************************************************************)
(* Claims                                                                  *)
(***************************************************************************)
\* The precedence the specification's table gives an operator.
TablePrecedence(op) ==
    IF op \in Level15 THEN 15 ELSE IF op \in Level13 THEN 13
    ELSE IF op \in Level12 THEN 12 ELSE IF op \in Level11 THEN 11
    ELSE IF op \in Level10 THEN 10 ELSE IF op \in Level9 THEN 9
    ELSE IF op \in Level8 THEN 8 ELSE IF op \in Level7 THEN 7
    ELSE IF op \in Level6 THEN 6 ELSE IF op \in Level2 THEN 2
    ELSE IF op \in Level1 THEN 1 ELSE 0

\* The builder was given n tokens and then the separator, and nothing else.
ExprDone(n) ==
    /\ Len(calls) = n + 1
    /\ calls[n + 1].call = "notify_met_separator"
    /\ \A i \in 1..n : calls[i].call = "push_token"

\* The tokens given to push_token so far, in order.
PushedTokens ==
    LET pushes == SelectSeq(calls, LAMBDA c : c.call = "push_token")
    IN [i \in 1..Len(pushes) |-> pushes[i].token]

Nodes(toks) == [i \in 1..Len(toks) |-> Node_from(toks[i])]

Payloads(nodes) == [i \in 1..Len(nodes) |-> nodes[i].data.payload]

\* C1: x op1 y op2 z pushed to a fresh builder and closed by
\* notify_met_separator gives the output x y op1 z op2 when op1 binds at least
\* as tightly as op2 (equal precedence associates to the left) and
\* x y z op2 op1 when op1 binds less tightly; a + b - c * d gives a b + c d * -.
C1_InfixToPostfix ==
    /\ ExprDone(5) =>
           LET t == PushedTokens
           IN /\ bres.ok
              /\ stack = <<>>
              /\ output =
                     IF TablePrecedence(t[2].payload) >= TablePrecedence(t[4].payload)
                         THEN Nodes(<<t[1], t[3], t[2], t[5], t[4]>>)
                         ELSE Nodes(<<t[1], t[3], t[5], t[4], t[2]>>)
    /\ (ExprDone(7) /\ Payloads(Nodes(PushedTokens))
                          = <<<<"a">>, <<"+">>, <<"b">>, <<"-">>, <<"c">>, <<"*">>, <<"d">>>>) =>
           /\ bres.ok
           /\ Payloads(output)
                  = <<<<"a">>, <<"b">>, <<"+">>, <<"c">>, <<"d">>, <<"*">>, <<"-">>>>

\* C1 witness: x ^ y ^ z was closed and came out as x y ^ z ^.
C1_Witness ==
    /\ ExprDone(5)
    /\ PushedTokens[2].payload = <<"^">>
    /\ PushedTokens[4].payload = <<"^">>
    /\ Len(output) = 5
    /\ output[3].data.payload = <<"^">>
    /\ output[5].data.payload = <<"^">>

\* The character that follows the lexeme of a name token (None at the end).
FollowingChar(src, token) ==
    LET after == token.pos + Len(token.payload) + 1
    IN IF after <= Len(src) THEN src[after] ELSE None

\* C2: in the tokens parse returns, a name is a Function exactly when the
\* character right after it is ( or {, and an Identifier otherwise, wherever
\* it stands in the text.
C2_CallSiteByFollowingChar ==
    result.status = "ok" =>
        \A i \in 1..Len(result.tokens) :
            LET token == result.tokens[i]
            IN token.kind \in {"Identifier", "Function"} =>
                   (token.kind = "Function" <=> FollowingChar(source, token) \in {"(", "{"})

\* A character a name goes on with.
IsNameChar(c) == is_alphanumeric(c) \/ c = "_"

\* src[i..j] is a whole word: no name character stands right before or after it.
IsWholeWord(src, i, j) ==
    /\ 1 <= i /\ i <= j /\ j <= Len(src)
    /\ \A k \in i..j : IsNameChar(src[k])
    /\ i = 1 \/ ~IsNameChar(src[i - 1])
    /\ j = Len(src) \/ ~IsNameChar(src[j + 1])

\* C3: a word spelled exactly as a keyword comes out of parse as an Operator
\* token carrying that spelling, whatever stands before and after it (also
\* ( or {), and no Identifier or Function token carries a keyword.
C3_KeywordIsOperator ==
    pc = "done" =>
        /\ result.status = "ok"
        /\ \A i \in 1..Len(source) : \A j \in i..Len(source) :
               (IsWholeWord(source, i, j) /\ SubSeq(source, i, j) \in KEYWORDS) =>
                   \E k \in 1..Len(result.tokens) :
                       result.tokens[k] = Operator(SubSeq(source, i, j), i - 1)
        /\ \A k \in 1..Len(result.tokens) :
               result.tokens[k].kind \in {"Identifier", "Function"} =>
                   result.tokens[k].payload \notin KEYWORDS

\* C3 witness: "match" right before ( was returned as an Operator token.
C3_Witness ==
    /\ pc = "done"
    /\ source = <<" ", "m", "a", "t", "c", "h", "(", "a">>
    /\ result.status = "ok"
    /\ result.tokens[1] = Operator(<<"m", "a", "t", "c", "h">>, 1)

\* C4: the tokens parse returns stand in strictly increasing order of pos.
C4_PosStrictlyIncreasing ==
    result.status = "ok" =>
        \A i \in 1..(Len(result.tokens) - 1) :
            result.tokens[i].pos < result.tokens[i + 1].pos

\* C4 witness: parse returned a name, an operator, a number and a newline.
C4_Witness ==
    /\ result.status = "ok"
    /\ source = <<"a", "=", "1", "\n">>
    /\ Len(result.tokens) = 4
    /\ result.tokens[4] = NewLine(3)

\* The character at a byte offset of a text of one-byte characters.
CharAt(src, pos) == IF pos >= 0 /\ pos < Len(src) THEN src[pos + 1] ELSE None

\* The text of src that starts at offset pos and is as long as payload.
TextAt(src, pos, payload) == SubSeq(src, pos + 1, pos + Len(payload))

\* Offset pos is where a lexeme of the token's kind begins in src.
StartsOwnLexeme(src, token) ==
    LET first == CharAt(src, token.pos)
        before == CharAt(src, token.pos - 1)
    IN CASE token.kind \in {"IntConstant", "FloatConstant"} ->
                is_digit(first) /\ ~is_digit(before)
         [] token.kind \in {"Identifier", "Function"} ->
                /\ is_alphabetic(first) /\ ~IsNameChar(before)
                /\ TextAt(src, token.pos, token.payload) = token.payload
         [] token.kind = "Operator" ->
                /\ TextAt(src, token.pos, token.payload) = token.payload
                /\ \/ first \in OPERATORS
                   \/ is_alphabetic(first) /\ ~IsNameChar(before)
         [] token.kind = "StringConstant" -> first = "\""
         [] token.kind = "NewLine" -> first = "\n" /\ before # "\n"

\* C5: every token parse returns has as pos the offset of the first character
\* of its lexeme: the first digit of a number, the first letter of a name or
\* keyword, the first character of an operator, the opening quote of a string,
\* the first newline of a run of newlines.
C5_PosIsLexemeStart ==
    result.status = "ok" =>
        \A i \in 1..Len(result.tokens) : StartsOwnLexeme(source, result.tokens[i])

IsOpen(node) == node.data.kind = "Operator" /\ node.data.payload = <<"(">>
IsClose(token) == token.kind = "Operator" /\ token.payload = <<")">>

\* The step is a call of push_token.
IsPush == Len(calls') = Len(calls) + 1 /\ calls'[Len(calls')].call = "push_token"

\* C6: push_token of a ) while the stack holds no ( fails at once with
\* 'This closing parenthesis has no matching opening parenthesis' at the pos
\* of that ).
C6_StrayCloseFailsAtOnce ==
    [][(/\ IsPush
        /\ IsClose(calls'[Len(calls')].token)
        /\ \A i \in 1..Len(stack) : ~IsOpen(stack[i]))
          => bres' = [ok |-> FALSE,
                      err |-> SyntaxError(calls'[Len(calls')].token.pos,
                                  "This closing parenthesis has no matching opening parenthesis")]]_vars

\* C6 witness: a + b ) failed on its fourth token, at the pos of the ).
C6_Witness ==
    /\ Len(calls) = 4
    /\ OnlyPushes
    /\ Payloads(Nodes(PushedTokens)) = <<<<"a">>, <<"+">>, <<"a">>, <<")">>>>
    /\ ~bres.ok
    /\ bres.err = SyntaxError(3, "This closing parenthesis has no matching opening parenthesis")

\* The number of ( of a token sequence still open at its end, a ) closing the
\* last open ( when there is one.
RECURSIVE OpenAtEnd(_, _)
OpenAtEnd(toks, depth) ==
    IF toks = <<>> THEN depth
    ELSE IF Head(toks).kind = "Operator" /\ Head(toks).payload = <<"(">>
        THEN OpenAtEnd(Tail(toks), depth + 1)
    ELSE IF IsClose(Head(toks))
        THEN OpenAtEnd(Tail(toks), IF depth > 0 THEN depth - 1 ELSE 0)
    ELSE OpenAtEnd(Tail(toks), depth)

\* C7: when the tokens pushed to a fresh builder hold a ( with no matching
\* later ), notify_met_separator fails with 'The expression contains an extra
\* or inconsistent parenthesis', whatever stands between the parentheses.
C7_UnmatchedOpenRejected ==
    (/\ Len(calls) >= 1
     /\ ExprDone(Len(calls) - 1)
     /\ OpenAtEnd(PushedTokens, 0) > 0)
        => /\ ~bres.ok
           /\ bres.err.message = "The expression contains an extra or inconsistent parenthesis"

\* C8: push_token of a NewLine token fails with a SyntaxError at the pos of
\* that token, whatever the builder holds, and leaves stack and output as
\* they were.
C8_NewLineRefused ==
    [][(IsPush /\ calls'[Len(calls')].token.kind = "NewLine")
          => /\ ~bres'.ok
             /\ bres'.err.pos = calls'[Len(calls')].token.pos
             /\ stack' = stack
             /\ output' = output]_vars

\* C8 witness: a NewLine was refused by a builder holding a ( and + on the
\* stack and an operand in the output.
C8_Witness ==
    /\ Len(calls) = 4
    /\ calls[4] = [call |-> "push_token", token |-> NewLine(3)]
    /\ ~bres.ok
    /\ bres.err.pos = 3
    /\ Len(stack) = 2
    /\ Len(output) = 1

\* The characters a numeric literal is written with.
NumChars == Digits \cup {".", "%"}

\* src[i..j] is a maximal run of characters of the set.
IsMaximalRun(src, i, j, set) ==
    /\ 1 <= i /\ i <= j /\ j <= Len(src)
    /\ \A k \in i..j : src[k] \in set
    /\ i = 1 \/ src[i - 1] \notin set
    /\ j = Len(src) \/ src[j + 1] \notin set

AllDigits(text) == \A k \in 1..Len(text) : is_digit(text[k])

\* d: one or more digits.
IsIntForm(text) == Len(text) >= 1 /\ AllDigits(text)

\* d1.d2 or d. : digits, one '.', digits or nothing.
IsFloatForm(text) ==
    \E dot \in 2..Len(text) :
        /\ text[dot] = "."
        /\ AllDigits(SubSeq(text, 1, dot - 1))
        /\ AllDigits(SubSeq(text, dot + 1, Len(text)))

\* d%, d.% or d1.d2% : an integer or float form and one '%'.
IsPercentForm(text) ==
    /\ Len(text) >= 2
    /\ text[Len(text)] = "%"
    /\ LET body == SubSeq(text, 1, Len(text) - 1)
       IN IsIntForm(body) \/ IsFloatForm(body)

\* The number the digits of a text write, read as one integer.
RECURSIVE NumberOf(_)
NumberOf(text) ==
    IF text = <<>> THEN 0
    ELSE IF is_digit(text[Len(text)])
        THEN NumberOf(SubSeq(text, 1, Len(text) - 1)) * 10 + digit_value(text[Len(text)])
    ELSE NumberOf(SubSeq(text, 1, Len(text) - 1))

\* The number of digits written after the '.' of a text.
RECURSIVE FractionDigits(_)
FractionDigits(text) ==
    IF text = <<>> \/ text[Len(text)] = "." THEN 0
    ELSE IF is_digit(text[Len(text)]) /\ count_of(text, ".") = 1
        THEN 1 + FractionDigits(SubSeq(text, 1, Len(text) - 1))
    ELSE FractionDigits(SubSeq(text, 1, Len(text) - 1))

RECURSIVE Pow10(_)
Pow10(n) == IF n = 0 THEN 1 ELSE 10 * Pow10(n - 1)

\* The tokens of a sequence whose pos lies in the offsets first..last.
TokensWithin(toks, first, last) ==
    SelectSeq(toks, LAMBDA t : first <= t.pos /\ t.pos <= last)

\* Every run of literal characters of the text is a literal of one of the forms.
OnlyLiterals(src, forms(_)) ==
    \A i \in 1..Len(src) : \A j \in i..Len(src) :
        IsMaximalRun(src, i, j, NumChars) => forms(SubSeq(src, i, j))

\* C9: a run of digits standing alone or between whitespace / operators is
\* returned as exactly one token, an IntConstant whose value is the number
\* written and whose pos is the offset of the first digit; a text of such
\* runs only is accepted.
C9_DigitsAreOneIntConstant ==
    /\ result.status = "ok" =>
           \A i \in 1..Len(source) : \A j \in i..Len(source) :
               (IsMaximalRun(source, i, j, NumChars) /\ IsIntForm(SubSeq(source, i, j))) =>
                   TokensWithin(result.tokens, i - 1, j - 1)
                       = <<IntConstant(NumberOf(SubSeq(source, i, j)), i - 1)>>
    /\ (pc = "done" /\ OnlyLiterals(source, IsIntForm)) => result.status = "ok"

\* C9 witness: " 012+" was returned as 12 at offset 1 and + at offset 4.
C9_Witness ==
    /\ source = <<" ", "0", "1", "2", "+">>
    /\ result.status = "ok"
    /\ result.tokens = <<IntConstant(12, 1), Operator(<<"+">>, 4)>>

\* The token is a FloatConstant at pos whose value is number / 10^digits.
IsFloatOf(token, pos, number, digits) ==
    /\ token.kind = "FloatConstant"
    /\ token.pos = pos
    /\ token.value.m * Pow10(digits) = number * Pow10(token.value.e)

IsAnyLiteral(text) == IsIntForm(text) \/ IsFloatForm(text) \/ IsPercentForm(text)

\* C10: d%, d.% and d1.d2% are returned as exactly one token, a FloatConstant
\* of the number written before the % divided by 100; d1.d2 and d. as exactly
\* one FloatConstant of the decimal written; no IntConstant and no Operator
\* token comes from the literal; a text of literals only is accepted.
C10_FloatAndPercentLiterals ==
    /\ result.status = "ok" =>
           \A i \in 1..Len(source) : \A j \in i..Len(source) :
               LET text == SubSeq(source, i, j)
                   found == TokensWithin(result.tokens, i - 1, j - 1)
               IN /\ (IsMaximalRun(source, i, j, NumChars) /\ IsFloatForm(text)) =>
                         /\ Len(found) = 1
                         /\ IsFloatOf(found[1], i - 1, NumberOf(text), FractionDigits(text))
                  /\ (IsMaximalRun(source, i, j, NumChars) /\ IsPercentForm(text)) =>
                         /\ Len(found) = 1
                         /\ IsFloatOf(found[1], i - 1, NumberOf(text), FractionDigits(text) + 2)
    /\ (pc = "done" /\ OnlyLiterals(source, IsAnyLiteral)) => result.status = "ok"

\* C10 witness: "1.2%+" was returned as 0.012 at offset 0 and + at offset 4.
C10_Witness ==
    /\ source = <<"1", ".", "2", "%", "+">>
    /\ result.status = "ok"
    /\ result.tokens = <<FloatConstant([m |-> 12, e |-> 3], 0), Operator(<<"+">>, 4)>>


PercentTwice == "You cannot use the percent symbol twice on the same number"

\* src[i..j] is an integer or float literal and src[j+1], src[j+2] are '%'.
IsDoublePercentAt(src, i, j) ==
    /\ 1 <= i /\ i <= j /\ j + 2 <= Len(src)
    /\ i = 1 \/ src[i - 1] \notin NumChars
    /\ IsIntForm(SubSeq(src, i, j)) \/ IsFloatForm(SubSeq(src, i, j))
    /\ src[j + 1] = "%" /\ src[j + 2] = "%"

\* C11: a text holding d%% or d1.d2%% is never accepted, and when the text
\* before the literal is made of well-formed literals and delimiters the
\* SyntaxError returned is the percent-reuse error at the second %.
C11_DoublePercentRejected ==
    pc = "done" =>
        \A i \in 1..Len(source) : \A j \in i..Len(source) :
            IsDoublePercentAt(source, i, j) =>
                /\ result.status = "err"
                /\ OnlyLiterals(SubSeq(source, 1, i - 1), IsAnyLiteral) =>
                       result.err = SyntaxError(j + 1, PercentTwice)

\* C11 witness: " 2.%%" was refused at offset 4.
C11_Witness ==
    /\ source = <<" ", "2", ".", "%", "%">>
    /\ pc = "done"
    /\ result = Returned("err", <<>>, SyntaxError(4, PercentTwice))


\* The tokens of a sequence, each moved by a number of characters.
Shifted(toks, by) == [i \in 1..Len(toks) |-> [toks[i] EXCEPT !.pos = @ + by]]

\* The tokens of a text lexed on its own by a fresh reader.
TokensOf(text) == parse(NewState, text).result.tokens
Accepted(text) == parse(NewState, text).result.status = "ok"

\* The returned tokens are those of the text before the comment followed by
\* those of the text after it, the comment itself giving none.
IsTransparent(pre, comment, post) ==
    (source = pre \o comment \o post /\ Accepted(pre) /\ Accepted(post)) =>
        result = Returned("ok",
                     TokensOf(pre) \o Shifted(TokensOf(post), Len(pre) + Len(comment)),
                     NoError)

\* C12: a line comment (// to the end of the line) and a block comment
\* (/* to the first */ after it) give no token and no SyntaxError whatever
\* they contain: the tokens returned are those of the text before the comment
\* and those of the text after it.
C12_CommentsAreTransparent ==
    pc = "done" =>
        /\ \A pre \in Pres : \A comment \in LineComments : \A post \in LinePosts :
               IsTransparent(pre, comment, post)
        /\ \A pre \in Pres : \A comment \in BlockComments : \A post \in BlockPosts :
               IsTransparent(pre, comment, post)


\* The index of the first unescaped quote of src at or after index k, or 0:
\* a backslash takes the character after it with it.
RECURSIVE FindClose(_, _)
FindClose(src, k) ==
    IF k > Len(src) THEN 0
    ELSE IF src[k] = "\\" THEN FindClose(src, k + 2)
    ELSE IF src[k] = "\"" THEN k
    ELSE FindClose(src, k + 1)

\* The index of the first quote of src when no backslash stands before it, or 0.
FirstOpen(src) ==
    IF \E q \in 1..Len(src) : src[q] = "\"" /\ \A k \in 1..(q - 1) : src[k] \notin {"\"", "\\"}
        THEN CHOOSE q \in 1..Len(src) :
                 src[q] = "\"" /\ \A k \in 1..(q - 1) : src[k] \notin {"\"", "\\"}
        ELSE 0

\* C13: the first string literal of an accepted text, from its opening quote
\* to the first unescaped quote after it, is returned as the StringConstant
\* whose payload is the text between the two quotes, escapes undecoded, and
\* whose pos is the offset of the opening quote.
C13_StringPayloadVerbatim ==
    (result.status = "ok" /\ FirstOpen(source) # 0
                          /\ FindClose(source, FirstOpen(source) + 1) # 0) =>
        LET open == FirstOpen(source)
            close == FindClose(source, open + 1)
        IN \E k \in 1..Len(result.tokens) :
               result.tokens[k] = StringConstant(SubSeq(source, open + 1, close - 1), open - 1)


\* The indices of src, from k on, that stand outside string literals and
\* comments when the text before k leaves the reader in the given mode:
\* "code", "string" (to the first unescaped quote), "line" (to the end of
\* the line, the newline standing outside) or "block" (to the first */).
RECURSIVE OutsideFrom(_, _, _)
OutsideFrom(src, k, mode) ==
    IF k > Len(src) THEN {}
    ELSE IF mode = "code"
        THEN IF src[k] = "\"" THEN OutsideFrom(src, k + 1, "string")
             ELSE IF src[k] = "/" /\ k < Len(src) /\ src[k + 1] = "/"
                 THEN OutsideFrom(src, k + 2, "line")
             ELSE IF src[k] = "/" /\ k < Len(src) /\ src[k + 1] = "*"
                 THEN OutsideFrom(src, k + 2, "block")
             ELSE {k} \cup OutsideFrom(src, k + 1, "code")
    ELSE IF mode = "string"
        THEN IF src[k] = "\\" THEN OutsideFrom(src, k + 2, "string")
             ELSE IF src[k] = "\"" THEN OutsideFrom(src, k + 1, "code")
             ELSE OutsideFrom(src, k + 1, "string")
    ELSE IF mode = "line"
        THEN IF src[k] = "\n" THEN OutsideFrom(src, k, "code")
             ELSE OutsideFrom(src, k + 1, "line")
    ELSE IF src[k] = "*" /\ k < Len(src) /\ src[k + 1] = "/"
        THEN OutsideFrom(src, k + 2, "code")
    ELSE OutsideFrom(src, k + 1, "block")

\* C14: in an accepted text every maximal run of newlines standing outside
\* strings and block comments is returned as exactly one token, the NewLine
\* whose pos is the offset of the first newline of the run (so two runs with
\* anything between them give two NewLine tokens).
C14_OneNewLinePerRun ==
    result.status = "ok" =>
        \A i \in 1..Len(source) : \A j \in i..Len(source) :
            (IsMaximalRun(source, i, j, {"\n"}) /\ i \in OutsideFrom(source, 1, "code")) =>
                TokensWithin(result.tokens, i - 1, j - 1) = <<NewLine(i - 1)>>


\* C15: each of += -= *= /= == != <= >= and -> is returned as exactly one
\* token, the Operator with that two-character payload at the offset of its
\* first character, and the text around it is accepted.
C15_TwoCharOperators ==
    pc = "done" =>
        \A pre \in OpBefore : \A op \in TwoCharOps : \A post \in Texts(OpAfter, MaxOpAfter) :
            source = pre \o op \o post =>
                /\ result.status = "ok"
                /\ TokensWithin(result.tokens, Len(pre), Len(pre) + 1)
                       = <<Operator(op, Len(pre))>>


\* C16: what a parse call returns is what a fresh reader returns for the
\* same text, whatever calls the reader has served before.
C16_ResultDependsOnTextOnly ==
    pc = "done" => result = parse(NewState, source).result


\* The index at which the word holding src[k] begins: the maximal run of
\* digits, letters and '_' around k.
RECURSIVE WordStart(_, _)
WordStart(src, k) ==
    IF k > 1 /\ IsNameChar(src[k - 1]) THEN WordStart(src, k - 1) ELSE k

\* src[k] is a lexical violation: a character no lexeme can start with, a
\* '_' at the start of a word, or the first character that is not a digit in
\* a word that starts with a digit (a letter directly inside a number, or a
\* '_' where the number has ended).
IsViolation(src, k) ==
    \/ ~IsNameChar(src[k]) /\ ~is_whitespace(src[k]) /\ src[k] \notin OPERATORS /\ src[k] # "\""
    \/ src[k] = "_" /\ WordStart(src, k) = k
    \/ /\ IsNameChar(src[k]) /\ ~is_digit(src[k])
       /\ \A n \in WordStart(src, k)..(k - 1) : is_digit(src[n])
       /\ WordStart(src, k) < k

Violations(src) == {k \in 1..Len(src) : IsViolation(src, k)}
FirstViolation(src) == CHOOSE k \in Violations(src) : \A n \in Violations(src) : k <= n

\* C17: parse of a text with a lexical violation returns a SyntaxError and no
\* token, the pos being the offset of the first offending character; it has
\* taken no character beyond that one, so the result is that of the text cut
\* after it.
C17_StopsAtFirstViolation ==
    (pc = "done" /\ Violations(source) # {}) =>
        LET k == FirstViolation(source)
        IN /\ result.status = "err"
           /\ result.tokens = <<>>
           /\ result.err.pos = k - 1
           /\ offset = k
           /\ result = parse(NewState, SubSeq(source, 1, k)).result

\* C17 witness: "a 1a" was refused at offset 3, the letter inside the number.
C17_Witness ==
    /\ source = <<"a", " ", "1", "a">>
    /\ pc = "done"
    /\ result = Returned("err", <<>>, SyntaxError(3, "Invalid character in integer number record"))


\* A digit sequence without its leading zeros.
RECURSIVE Significant(_)
Significant(digits) ==
    IF digits # <<>> /\ Head(digits) = "0" THEN Significant(Tail(digits)) ELSE digits

\* Of two digit sequences of one length the first is not the larger number.
RECURSIVE NotLarger(_, _)
NotLarger(a, b) ==
    IF a = <<>> THEN TRUE
    ELSE IF digit_value(Head(a)) # digit_value(Head(b))
        THEN digit_value(Head(a)) < digit_value(Head(b))
    ELSE NotLarger(Tail(a), Tail(b))

LargestI32 == <<"2", "1", "4", "7", "4", "8", "3", "6", "4", "7">>

\* The number a digit sequence writes is at most 2147483647.
FitsI32(digits) ==
    \/ Len(Significant(digits)) < Len(LargestI32)
    \/ Len(Significant(digits)) = Len(LargestI32) /\ NotLarger(Significant(digits), LargestI32)

IntParseError == "Can't parse int number"

\* C18: a digit sequence beyond 2147483647 makes parse return the SyntaxError
\* 'Can't parse int number' at the offset of its first digit, with no token
\* and no abort, while one up to 2147483647 is returned as the IntConstant of
\* its value.
C18_IntOverflowIsSyntaxError ==
    pc = "done" =>
        \A pre \in BigBefore : \A digits \in BigNumbers : \A post \in BigAfter :
            source = pre \o digits \o post =>
                IF FitsI32(digits)
                    THEN /\ result.status = "ok"
                         /\ TokensWithin(result.tokens, Len(pre), Len(pre) + Len(digits) - 1)
                                = <<IntConstant(NumberOf(digits), Len(pre))>>
                    ELSE result = Returned("err", <<>>, SyntaxError(Len(pre), IntParseError))

\* C18 witness: "a+2147483648 " was refused at offset 2.
C18_Witness ==
    /\ source = <<"a", "+", "2", "1", "4", "7", "4", "8", "3", "6", "4", "8", " ">>
    /\ pc = "done"
    /\ result = Returned("err", <<>>, SyntaxError(2, IntParseError))


\* C19: get_priority gives every spelling of the table its level and every
\* other spelling 0; and so, of two operators pushed one after the other (no
\* parenthesis), the first has left the stack for the output exactly when
\* its level is not below the second's.
C19_PriorityIsTheTable ==
    /\ \A op \in Spellings : get_priority(op) = TablePrecedence(op)
    /\ \A op \in UnlistedOperators : get_priority(op) = 0
    /\ (Len(calls) = 2 /\ calls[1].token.payload # <<"(">> /\ calls[2].token.payload # <<"(">>) =>
           (Len(output) >= 1 /\ output[1] = Node_from(calls[1].token))
               <=> TablePrecedence(calls[1].token.payload) >= TablePrecedence(calls[2].token.payload)

\* C19 witness: == was pushed, then <: == (8) waits on the stack under < (9).
C19_Witness ==
    /\ Len(calls) = 2
    /\ calls[1].token.payload = <<"=", "=">>
    /\ calls[2].token.payload = <<"<">>
    /\ output = <<>>
    /\ stack = <<Node_from(calls[1].token), Node_from(calls[2].token)>>


\* The mode the text src, read from index k in the given mode, ends in
\* (the modes of OutsideFrom).
RECURSIVE ModeAfter(_, _, _)
ModeAfter(src, k, mode) ==
    IF k > Len(src) THEN mode
    ELSE IF mode = "code"
        THEN IF src[k] = "\"" THEN ModeAfter(src, k + 1, "string")
             ELSE IF src[k] = "/" /\ k < Len(src) /\ src[k + 1] = "/"
                 THEN ModeAfter(src, k + 2, "line")
             ELSE IF src[k] = "/" /\ k < Len(src) /\ src[k + 1] = "*"
                 THEN ModeAfter(src, k + 2, "block")
             ELSE ModeAfter(src, k + 1, "code")
    ELSE IF mode = "string"
        THEN IF src[k] = "\\" THEN ModeAfter(src, k + 2, "string")
             ELSE IF src[k] = "\"" THEN ModeAfter(src, k + 1, "code")
             ELSE ModeAfter(src, k + 1, "string")
    ELSE IF mode = "line"
        THEN IF src[k] = "\n" THEN ModeAfter(src, k, "code")
             ELSE ModeAfter(src, k + 1, "line")
    ELSE IF src[k] = "*" /\ k < Len(src) /\ src[k + 1] = "/"
        THEN ModeAfter(src, k + 2, "code")
    ELSE ModeAfter(src, k + 1, "block")

EndMode(src) == ModeAfter(src, 1, "code")

\* The text ends inside a lexeme: a number, name, operator or newline run,
\* or right after the closing quote of a string.
EndsInLexeme(src) ==
    /\ src # <<>>
    /\ EndMode(src) = "code"
    /\ \/ Len(src) \in OutsideFrom(src, 1, "code") /\ src[Len(src)] \notin {" ", "\t", "\r"}
       \/ Len(src) \notin OutsideFrom(src, 1, "code") /\ src[Len(src)] = "\""

\* C20: the flush at the end of a text that does not end inside a string
\* adds exactly one token when the text ends inside a lexeme and none
\* otherwise (after whitespace, in or after a comment, empty text), and what
\* parse returns is what it returns for the same text followed by one space.
C20_FinalFlushOnce ==
    [][(pc = "flush" /\ EndMode(source) # "string") =>
           /\ result' = parse(NewState, source \o <<" ">>).result
           /\ result'.status = "ok" =>
                  Len(result'.tokens) = Len(tokens) + (IF EndsInLexeme(source) THEN 1 ELSE 0)]_vars


\* C21: the loop counter of parse never passes the iteration ceiling, so no
\* call is aborted by it, however long the text.
C21_CeilingNeverReached ==
    it <= IterationCap /\ ~(pc = "done" /\ result.status = "panic")


\* An Operator token made of punctuation (not a keyword).
IsPunctuation(token) ==
    /\ token.kind = "Operator"
    /\ \A k \in 1..Len(token.payload) : token.payload[k] \in OPERATORS \cup {"!"}

\* The payload is one character, c= with c of + - * / = ! < >, or ->.
IsShortOperator(payload) ==
    \/ Len(payload) = 1
    \/ Len(payload) = 2 /\ payload[1] \in OpFirst /\ payload[2] = "="
    \/ payload = <<"-", ">">>

\* C22: every Operator token returned for punctuation is one character or
\* one of the two-character operators; a longer run is split.
C22_OperatorsAreShort ==
    \A k \in 1..Len(result.tokens) :
        IsPunctuation(result.tokens[k]) => IsShortOperator(result.tokens[k].payload)


\* C23: every StringConstant returned stands at an opening quote that has a
\* closing quote (the first unescaped quote after it), its payload is the
\* text between the two, so it holds no unescaped quote, and the lexeme ends
\* with that closing quote whatever follows.
C23_StringEndsAtClosingQuote ==
    \A k \in 1..Len(result.tokens) :
        result.tokens[k].kind = "StringConstant" =>
            LET open == result.tokens[k].pos + 1
                close == FindClose(source, open + 1)
            IN /\ source[open] = "\""
               /\ close # 0
               /\ result.tokens[k].payload = SubSeq(source, open + 1, close - 1)
               /\ FindClose(result.tokens[k].payload, 1) = 0


\* C24: for f ( x ) closed by the separator the output is x f; for
\* f ( x ) op y, with op any operator but a parenthesis, the Function f has
\* left the stack for the output when op is pushed, whatever the precedence
\* of op, and the output after the separator is x f y op.
C24_FunctionPoppedByAnyOperator ==
    LET t == PushedTokens
    IN /\ ExprDone(4) =>
              bres.ok /\ stack = <<>> /\ output = Nodes(<<t[3], t[1]>>)
       /\ (OnlyPushes /\ Len(calls) = 5) =>
              bres.ok /\ stack = Nodes(<<t[5]>>) /\ output = Nodes(<<t[3], t[1]>>)
       /\ ExprDone(6) =>
              bres.ok /\ stack = <<>> /\ output = Nodes(<<t[3], t[1], t[6], t[5]>>)

\* C24 witness: f ( x ) , y was closed and came out as x f y ,.
C24_Witness ==
    /\ ExprDone(6)
    /\ PushedTokens[1].kind = "Function"
    /\ PushedTokens[5].payload = <<",">>
    /\ Payloads(output) = <<<<"b">>, <<"f">>, <<"c">>, <<",">>>>


\* C25: with op1 and op2 any operators of the table, ( x op1 y ) op2 z gives
\* the output x y op1 z op2 and x op2 ( y op1 z ) gives x y z op1 op2; in
\* the second, op2 stays at the bottom of the stack while the tokens in the
\* parentheses are pushed.
C25_ParenthesesOverridePrecedence ==
    LET t == PushedTokens
    IN /\ (ExprDone(7) /\ OpenFirst) =>
              bres.ok /\ stack = <<>> /\ output = Nodes(<<t[2], t[4], t[3], t[7], t[6]>>)
       /\ (ExprDone(7) /\ ~OpenFirst) =>
              bres.ok /\ stack = <<>> /\ output = Nodes(<<t[1], t[4], t[6], t[5], t[2]>>)
       /\ (OnlyPushes /\ ~OpenFirst /\ Len(calls) \in 2..7) =>
              /\ stack # <<>> /\ stack[1] = Node_from(t[2])
              /\ \A k \in 1..Len(output) : output[k] # Node_from(t[2])

\* C25 witness: x ^ ( y = z ) was closed and came out as x y z = ^, the
\* operator of lower precedence first.
C25_Witness ==
    /\ ExprDone(7)
    /\ ~OpenFirst
    /\ PushedTokens[2].payload = <<"^">>
    /\ PushedTokens[5].payload = <<"=">>
    /\ Payloads(output)[4] = <<"=">>
    /\ Payloads(output)[5] = <<"^">>


IsParenthesis(token) == token.kind = "Operator" /\ token.payload \in {<<"(">>, <<")">>}
IsOperand(token) ==
    token.kind \in {"FloatConstant", "IntConstant", "StringConstant", "Identifier"}

\* The tokens the builder has to keep: those pushed, without the parentheses
\* and the NewLine tokens (which push_token refuses).
KeptTokens == SelectSeq(PushedTokens, LAMBDA t : ~IsParenthesis(t) /\ t.kind # "NewLine")

\* How many nodes of a sequence hold the token.
Occurrences(nodes, token) == Cardinality({k \in 1..Len(nodes) : nodes[k] = Node_from(token)})

\* C26: every pushed token that is not a parenthesis is held exactly once,
\* in the output or on the stack; the operands stand in the output in the
\* order they were pushed; after a successful notify_met_separator the stack
\* is empty and the output holds each of them exactly once.
C26_TokenConservation ==
    /\ \A k \in 1..Len(KeptTokens) : Occurrences(output \o stack, KeptTokens[k]) = 1
    /\ SelectSeq(output, LAMBDA node : IsOperand(node.data))
           = Nodes(SelectSeq(PushedTokens, IsOperand))
    /\ (calls # <<>> /\ calls[Len(calls)].call = "notify_met_separator" /\ bres.ok) =>
           /\ stack = <<>>
           /\ \A k \in 1..Len(KeptTokens) : Occurrences(output, KeptTokens[k]) = 1

\* C26 witness: ( a + a ) was pushed: a a + are in the output and the stack
\* is empty.
C26_Witness ==
    /\ Len(calls) = 5 /\ OnlyPushes /\ bres.ok
    /\ Payloads(Nodes(PushedTokens)) = <<<<"(">>, <<"a">>, <<"+">>, <<"a">>, <<")">>>>
    /\ Payloads(output) = <<<<"a">>, <<"a">>, <<"+">>>>
    /\ stack = <<>>


IsPrefix(a, b) == Len(a) <= Len(b) /\ SubSeq(b, 1, Len(a)) = a

\* The new stack is the old one with some nodes taken from its top and at
\* most one node, that of the token given, put on top.
IsLifoStep(old, new, token) ==
    \E kept \in 0..Len(old) :
        \/ new = SubSeq(old, 1, kept)
        \/ new = Append(SubSeq(old, 1, kept), Node_from(token))

\* C27: every call on the builder, push_token or notify_met_separator,
\* succeeding or failing, keeps the former output as a prefix of the output
\* and changes the stack at its top only; notify_met_separator does not
\* clear the output and the builder goes on from there.
C27_OutputAppendOnlyStackLifo ==
    [][Len(calls') = Len(calls) + 1 =>
           /\ IsPrefix(output, output')
           /\ IsLifoStep(stack, stack', calls'[Len(calls')].token)
           /\ calls'[Len(calls')].call = "notify_met_separator" => IsPrefix(stack', stack)]_vars

\* C27 witness: a + was pushed, the separator met, then a pushed again: the
\* output holds a + a.
C27_Witness ==
    /\ Len(calls) = 4
    /\ calls[1].call = "push_token" /\ calls[1].token.kind = "Identifier"
    /\ calls[2].call = "push_token" /\ calls[2].token.payload = <<"+">>
    /\ calls[3].call = "notify_met_separator"
    /\ calls[4].call = "push_token" /\ calls[4].token.kind = "Identifier"
    /\ Payloads(output) = <<<<"a">>, <<"+">>, <<"a">>>>


\* The token k of the tokens returned is followed by an Operator token that
\* begins with the bracket and stands at pos.
BracketTokenAfter(k, bracket, pos) ==
    /\ k < Len(result.tokens)
    /\ result.tokens[k + 1].kind = "Operator"
    /\ result.tokens[k + 1].payload # <<>>
    /\ result.tokens[k + 1].payload[1] = bracket
    /\ result.tokens[k + 1].pos = pos

\* Every name of an accepted text that is directly followed by ( or { is
\* returned as the Function token of that name, and every Function token so
\* followed has the bracket as the next token, right after the name.
BracketFollowsFunction ==
    /\ result.status = "ok" =>
           \A i \in 1..Len(source) : \A j \in i..(Len(source) - 1) :
               (/\ IsMaximalRun(source, i, j, {c \in Letters \cup Digits \cup {"_"} : TRUE})
                /\ is_alphabetic(source[i])
                /\ SubSeq(source, i, j) \notin KEYWORDS
                /\ source[j + 1] \in {"(", "{"}) =>
                   \E k \in 1..Len(result.tokens) :
                       /\ result.tokens[k] = Function(SubSeq(source, i, j), i - 1)
                       /\ BracketTokenAfter(k, source[j + 1], j)
    /\ \A k \in 1..Len(result.tokens) :
           LET token == result.tokens[k]
               bracket == FollowingChar(source, token)
           IN (token.kind = "Function" /\ bracket \in {"(", "{"}) =>
                  BracketTokenAfter(k, bracket, token.pos + Len(token.payload))

\* A loop iteration of parse that closes a lexeme takes no new character and
\* examines the closing one again from mode Nothing, after which the next
\* iteration moves on: no character is examined more than twice.
ClosingCharRedispatched ==
    (pc = "loop" /\ state.is_ready_to_push) =>
        /\ offset' = offset
        /\ current_char' = current_char
        /\ ~state'.is_ready_to_push
        /\ pc' = "loop" =>
               state' = reduce_state_nothing(current_char, offset - 1, state_after_push(state)).state

\* C28: the bracket that closes a call-site name is not consumed by the name
\* but returned as the Operator token right after the Function token, at pos
\* p + length(n); and every character that closes a lexeme is examined once
\* more, from mode Nothing, and not again.
C28_ClosingBracketIsItsOwnToken ==
    [](BracketFollowsFunction) /\ [][ClosingCharRedispatched]_vars

\* C28 witness: "ifx( " was returned as Function ifx at 0 and Operator ( at 3.
C28_Witness ==
    /\ source = <<"i", "f", "x", "(", " ">>
    /\ result.status = "ok"
    /\ result.tokens = <<Function(<<"i", "f", "x">>, 0), Operator(<<"(">>, 3)>>


\* No token and no SyntaxError of the result stands on a character of the
\* part of the source that begins at index from (counted from 0) and is
\* length characters long.
NothingLexedWithin(from, length) ==
    /\ \A k \in 1..Len(result.tokens) :
           result.tokens[k].pos \notin from..(from + length - 1)
    /\ result.status = "err" => result.err.pos \notin from..(from + length - 1)

\* C29: a block comment runs from its /* to the first */ that lies entirely
\* after the opener, the '*' of the opener not pairing with a '/' right after
\* it and a /* inside opening nothing: no character from the opener to that
\* */ is lexed as a token or reported as an error.
C29_BlockCommentEndsAtFirstStarSlash ==
    pc = "done" =>
        \A pre \in Pres : \A comment \in BlockComments : \A post \in BlockPosts :
            (source = pre \o comment \o post /\ Accepted(pre)) =>
                NothingLexedWithin(Len(pre), Len(comment))

\* src[i..j] is a name: a whole word that begins with a letter and is no keyword.
IsName(src, i, j) ==
    /\ IsWholeWord(src, i, j)
    /\ is_alphabetic(src[i])
    /\ SubSeq(src, i, j) \notin KEYWORDS

\* C30: pos and the bounds of a lexeme are byte offsets also when characters
\* of more than one byte occur: parse returns, and every name of an accepted
\* text is returned as an Identifier or Function token whose pos is the byte
\* offset of the name's first character and whose payload is the whole name.
C30_PositionsAreByteOffsets ==
    pc = "done" =>
        /\ result.status # "panic"
        /\ result.status = "ok" =>
               \A i \in 1..Len(source) : \A j \in i..Len(source) :
                   IsName(source, i, j) =>
                       \E k \in 1..Len(result.tokens) :
                           /\ result.tokens[k].kind \in {"Identifier", "Function"}
                           /\ result.tokens[k].pos = char_start(source, i)
                           /\ result.tokens[k].payload = SubSeq(source, i, j)

\* A call that returns a SyntaxError leaves the stack and the output as they were.
FailedCallChangesNothing ==
    (Len(calls') = Len(calls) + 1 /\ ~bres'.ok) => (stack' = stack /\ output' = output)

\* C31: when push_token or notify_met_separator returns a SyntaxError, the
\* builder's output and stack are what they were before the call: a failing
\* ) or a failing end of expression moves no operator from the stack to the
\* output.
C31_FailedCallHasNoEffect == [][FailedCallChangesNothing]_vars

\* parse is about to close a lexeme: in the loop with the flag up, or in the
\* flush after the loop.
AboutToPush == (pc = "loop" /\ state.is_ready_to_push) \/ pc = "flush"

\* The substring source[start..end] the push takes, and for a string literal
\* source[start+1..end-1], lie within the text with their bounds in order.
SubstringBoundsInOrder ==
    LET start == state.start_offset
        end == offset - 1
    IN /\ 0 <= start /\ start <= end /\ end <= byte_len(source)
       /\ state.expected = "StringConstant" => start + 1 <= end - 1

\* C32: on a fresh reader every substring taken when a lexeme is closed has
\* 0 <= start <= end <= length of the text, the payload substring of a string
\* literal included, so parse does not abort on a substring and returns Ok or
\* a SyntaxError, also for a text that ends after an opening quote or inside
\* a string literal.
C32_SubstringBoundsHold ==
    /\ AboutToPush => SubstringBoundsInOrder
    /\ pc = "done" => result.status \in {"ok", "err"}

\* The number of ( still open at the end of a token sequence, or -1 when
\* some ) of it stands where no ( is open.
RECURSIVE OpenDepth(_, _)
OpenDepth(toks, depth) ==
    IF toks = <<>> THEN depth
    ELSE IF Head(toks).kind = "Operator" /\ Head(toks).payload = <<"(">>
        THEN OpenDepth(Tail(toks), depth + 1)
    ELSE IF IsClose(Head(toks))
        THEN (IF depth > 0 THEN OpenDepth(Tail(toks), depth - 1) ELSE -1)
    ELSE OpenDepth(Tail(toks), depth)

\* C33: when every ) pushed to a fresh builder was preceded by a ( still
\* unmatched, push_token does not return 'This closing parenthesis has no
\* matching opening parenthesis', and when in addition every ( is matched,
\* notify_met_separator succeeds, whatever operators stand between the
\* parentheses, those of precedence 0 included.
C33_BalancedNeverRejected ==
    /\ (OnlyPushes /\ OpenDepth(PushedTokens, 0) >= 0) =>
           bres.err.message # "This closing parenthesis has no matching opening parenthesis"
    /\ (Len(calls) >= 1 /\ ExprDone(Len(calls) - 1) /\ OpenDepth(PushedTokens, 0) = 0) =>
           bres.ok

\* The node wraps an Operator ( or an Operator ).
WrapsParenthesis(node) ==
    /\ node.data # NoToken
    /\ node.data.kind = "Operator"
    /\ node.data.payload \in {<<"(">>, <<")">>}

\* C34: after any calls of push_token and notify_met_separator the output
\* holds no node of an Operator ( or ), and the stack holds no node of an
\* Operator ): a parenthesis is held on the stack or discarded.
C34_NoParenthesisInOutput ==
    /\ \A i \in 1..Len(output) : ~WrapsParenthesis(output[i])
    /\ \A i \in 1..Len(stack) :
           ~(WrapsParenthesis(stack[i]) /\ stack[i].data.payload = <<")">>)
====
